---- MODULE Spec2Model ----
(***************************************************************************)
(* A model of Englisg_filter.py: the text-quality classifier               *)
(* is_quality_english and the row reducer extract_quality_english_text.    *)
(* A text is a sequence of one-character strings.                          *)
(***************************************************************************)
EXTENDS Integers, Sequences, FiniteSets, TLC

VARIABLES
    \* ---- extract_quality_english_text ----
    pc,            \* position in extract_quality_english_text
    file,          \* the rows the input file holds (what a successful parse yields)
    caller_columns,\* the text_columns argument as the caller passed it
    text_columns,  \* the local text_columns: the argument, then the columns scanned
    visited,       \* the columns whose cell the latest scanned row was read at
    attempts,      \* the parse strategies tried so far, in order
    df,            \* the loaded table (its rows)
    total_rows,    \* len(df)
    row_idx,       \* number of rows of df already scanned
    all_texts,     \* the accumulating output list
    result_df,     \* the "english_text" column of result_df
    output_file,   \* what to_csv wrote, or NotWritten
    returned,      \* the value returned to the caller, or NoTable
    error,         \* the exception that left the function, or NoError
    \* ---- is_quality_english called on its own ----
    cin,           \* the text argument
    cparams,       \* min_words, min_alpha_ratio (num/den), min_length
    cout           \* the outcome of the call, or Pending

vars == <<pc, file, caller_columns, text_columns, visited, attempts, df, total_rows, row_idx, all_texts,
          result_df, output_file, returned, error, cin, cparams, cout>>

extractVars == <<pc, file, caller_columns, text_columns, visited, attempts, df, total_rows, row_idx,
                 all_texts, result_df, output_file, returned, error>>

classifierVars == <<cin, cparams, cout>>

----------------------------------------------------------------------------
(* Characters *)

LowerLetters ==
    <<"a","b","c","d","e","f","g","h","i","j","k","l","m",
      "n","o","p","q","r","s","t","u","v","w","x","y","z">>

UpperLetters ==
    <<"A","B","C","D","E","F","G","H","I","J","K","L","M",
      "N","O","P","Q","R","S","T","U","V","W","X","Y","Z">>

Range(s) == {s[i] : i \in DOMAIN s}

LowerSet == Range(LowerLetters)

UpperSet == Range(UpperLetters)

\* the characters \s and str.strip() treat as whitespace
Whitespace == {" ", "\t", "\n"}

\* c.isalpha()
IsAlpha(c) == c \in LowerSet \/ c \in UpperSet

\* c.lower()
LowerChar(c) ==
    IF c \in UpperSet
    THEN LowerLetters[CHOOSE i \in 1..26 : UpperLetters[i] = c]
    ELSE c

\* s.lower()
Lower(s) == [i \in 1..Len(s) |-> LowerChar(s[i])]

----------------------------------------------------------------------------
(* String functions of the Python runtime used by the program *)

\* s.strip(): s without its leading and trailing whitespace
Strip(s) ==
    LET solid == {i \in 1..Len(s) : s[i] \notin Whitespace}
    IN  IF solid = {} THEN <<>>
        ELSE LET lo == CHOOSE i \in solid : \A j \in solid : i <= j
                 hi == CHOOSE i \in solid : \A j \in solid : i >= j
             IN  SubSeq(s, lo, hi)

\* re.sub(r'\s+', ' ', s): every maximal run of whitespace becomes one space
ReSubWhitespace(s) ==
    LET idx  == [i \in 1..Len(s) |-> i]
        keep == SelectSeq(idx, LAMBDA i : ~(s[i] \in Whitespace /\ i > 1
                                             /\ s[i-1] \in Whitespace))
    IN  [j \in 1..Len(keep) |-> IF s[keep[j]] \in Whitespace THEN " " ELSE s[keep[j]]]

\* needle in haystack (substring test)
Contains(haystack, needle) ==
    \E i \in 1..(Len(haystack) - Len(needle) + 1) :
        SubSeq(haystack, i, i + Len(needle) - 1) = needle

\* s.split(): the maximal runs of non-whitespace characters
Split(s) ==
    LET starts == SelectSeq([i \in 1..Len(s) |-> i],
                     LAMBDA i : s[i] \notin Whitespace
                                /\ (i = 1 \/ s[i-1] \in Whitespace))
        EndOf(a) == CHOOSE b \in a..Len(s) :
                        /\ \A k \in a..b : s[k] \notin Whitespace
                        /\ (b = Len(s) \/ s[b+1] \in Whitespace)
    IN  [j \in 1..Len(starts) |-> SubSeq(s, starts[j], EndOf(starts[j]))]

----------------------------------------------------------------------------
(* Values a caller can pass as text, and what pandas/numpy do with them *)

StrVal(s) == [kind |-> "str", chars |-> s, size |-> 0]

NaNVal == [kind |-> "nan", chars |-> <<>>, size |-> 0]

NoneVal == [kind |-> "None", chars |-> <<>>, size |-> 0]

IntVal == [kind |-> "int", chars |-> <<>>, size |-> 0]

\* a Python list of n non-null elements
ListVal(n) == [kind |-> "list", chars |-> <<>>, size |-> n]

\* pd.isna(v): a bool for a scalar, an element-wise bool array for a list
PdIsNa(v) ==
    IF v.kind = "list"
    THEN [shape |-> "array", size |-> v.size, value |-> FALSE]
    ELSE [shape |-> "scalar", size |-> 0, value |-> v.kind \in {"nan", "None"}]

\* bool(x) of a pd.isna result: numpy refuses the truth value of an array of
\* two or more elements; for an empty array it depends on the numpy version
\* (False with a deprecation warning, or an error): emptyRaises is that choice
TruthValue(x, emptyRaises) ==
    IF x.shape = "scalar" THEN (IF x.value THEN "True" ELSE "False")
    ELSE IF x.size = 1 THEN (IF x.value THEN "True" ELSE "False")
    ELSE IF x.size = 0 THEN (IF emptyRaises THEN "ValueError" ELSE "False")
    ELSE "ValueError"

\* isinstance(v, str)
IsStr(v) == v.kind = "str"

----------------------------------------------------------------------------
(* is_quality_english *)

DefaultMinWords == 4

DefaultMinAlphaNum == 1

DefaultMinAlphaDen == 2

DefaultMinLength == 15

\* the default thresholds; min_alpha_ratio is the fraction alpha_num/alpha_den
DefaultParams ==
    [min_words |-> DefaultMinWords, alpha_num |-> DefaultMinAlphaNum,
     alpha_den |-> DefaultMinAlphaDen, min_length |-> DefaultMinLength]

common_english_words ==
    <<<<"t","h","e">>,
      <<"a","n","d">>,
      <<"f","o","r">>,
      <<"y","o","u">>,
      <<"a","r","e">>,
      <<"y","o","u","r">>,
      <<"w","i","l","l">>,
      <<"h","a","v","e">>,
      <<"f","r","o","m">>,
      <<"t","h","i","s">>,
      <<"w","i","t","h">>,
      <<"t","h","a","t">>,
      <<"s","e","n","d">>,
      <<"p","l","e","a","s","e">>,
      <<"m","o","n","e","y">>,
      <<"b","a","n","k">>,
      <<"a","c","c","o","u","n","t">>,
      <<"c","o","n","t","a","c","t">>,
      <<"c","o","d","e">>,
      <<"n","u","m","b","e","r">>,
      <<"p","h","o","n","e">>,
      <<"c","a","l","l">>,
      <<"c","a","s","h">>,
      <<"c","r","e","d","i","t">>,
      <<"p","a","y","m","e","n","t">>,
      <<"f","r","e","e">>,
      <<"c","l","a","i","m">>,
      <<"p","r","i","z","e">>,
      <<"w","i","n">>,
      <<"w","o","n">>,
      <<"c","o","n","g","r","a","t","u","l","a","t","i","o","n","s">>,
      <<"u","r","g","e","n","t">>>>

\* cleaned_text = re.sub(r'\s+', ' ', str(text)).strip()
CleanedText(s) == Strip(ReSubWhitespace(s))

PlaceholderRunOf6(s) ==
    \E i \in 1..(Len(s) - 5) : \A k \in i..(i + 5) : s[k] = "X"

\* re.search(r'X{5,}', cleaned_text)
\* (a run of 5 or more exists exactly when 5 consecutive "X" do)
PlaceholderRun(s) ==
    \E i \in 1..(Len(s) - 4) : \A k \in i..(i + 4) : s[k] = "X"

\* alpha_chars = sum(c.isalpha() for c in cleaned_text)
AlphaChars(s) == Cardinality({i \in 1..Len(s) : IsAlpha(s[i])})

EnglishWordCountUnpadded(cleaned) ==
    LET lower_text == Lower(cleaned)
    IN  Cardinality({i \in 1..Len(common_english_words) :
                        Contains(lower_text, common_english_words[i])})

\* lower_text = cleaned_text.lower()
\* sum(1 for word in common_english_words if f" {word} " in f" {lower_text} ")
EnglishWordCount(cleaned) ==
    LET lower_text == Lower(cleaned)
        padded     == <<" ">> \o lower_text \o <<" ">>
    IN  Cardinality({i \in 1..Len(common_english_words) :
                        Contains(padded, <<" ">> \o common_english_words[i] \o <<" ">>)})

KeywordVerdictFrom50(length, english_word_count) ==
    IF length >= 50 THEN english_word_count >= 2 ELSE english_word_count >= 1

\* if len(cleaned_text) > 50: return english_word_count >= 2
\* else: return english_word_count >= 1
KeywordVerdict(length, english_word_count) ==
    IF length > 50 THEN english_word_count >= 2 ELSE english_word_count >= 1

\* how a call ended: the exception raised (or NoError), the value returned, the
\* source line of the return statement, and english_word_count when computed
NoError == <<>>

Returned(value, line, count) ==
    [exc |-> NoError, ret |-> value, line |-> line, english_word_count |-> count]

Raised(exception, line) ==
    [exc |-> exception, ret |-> FALSE, line |-> line, english_word_count |-> -1]

\* is_quality_english(text, min_words, min_alpha_ratio, min_length)
is_quality_english(text, p, emptyRaises) ==
    LET isna == TruthValue(PdIsNa(text), emptyRaises)
    IN  IF isna = "ValueError" THEN Raised(<<"ValueError">>, 14)
        ELSE IF isna = "True" \/ ~IsStr(text) \/ Strip(text.chars) = <<>>
        THEN Returned(FALSE, 15, -1)
        ELSE
        LET cleaned_text == CleanedText(text.chars)
            length       == Len(cleaned_text)
        IN  IF length < p.min_length THEN Returned(FALSE, 22, -1)
            ELSE IF PlaceholderRun(cleaned_text) THEN Returned(FALSE, 27, -1)
            ELSE IF Len(Split(cleaned_text)) < p.min_words THEN Returned(FALSE, 32, -1)
            ELSE IF length > 0
                    /\ AlphaChars(cleaned_text) * p.alpha_den < p.alpha_num * length
                 THEN Returned(FALSE, 37, -1)
            ELSE LET english_word_count == EnglishWordCount(cleaned_text)
                     verdict == KeywordVerdict(length, english_word_count)
                 IN  Returned(verdict, IF length > 50 THEN 53 ELSE 55, english_word_count)

----------------------------------------------------------------------------
(* is_quality_english called on its own: the inputs tried *)

\* most vocabulary words a text is built from
MaxWords == 3

\* most filler words appended to a text
MaxPad == 4

\* longest list passed as text
MaxListLen == 2

\* words a text is built from: keywords, a capitalised keyword, a keyword
\* followed by punctuation, a keyword inside a longer word, a placeholder
\* run, and digits
Vocabulary ==
    { <<"t","h","e">>, <<"w","i","n">>, <<"W","i","n">>, <<"w","i","n",",">>,
      <<"w","i","n","n","e","r">>, <<"X","X","X","X","X">>,
      <<"1","2","3","4","5">> }

\* a nine-letter word that is no keyword
Filler == <<"z","z","z","z","z","z","z","z","z">>

\* how the words of a text are separated and what surrounds them
Layouts ==
    { [lead |-> <<>>, sep |-> <<" ">>, trail |-> <<>>],
      [lead |-> <<"\t">>, sep |-> <<" ", "\n">>, trail |-> <<" ">>] }

RECURSIVE Join(_, _)
Join(words, sep) ==
    IF words = <<>> THEN <<>>
    ELSE IF Len(words) = 1 THEN words[1]
    ELSE words[1] \o sep \o Join(Tail(words), sep)

WordLists == UNION {[1..n -> Vocabulary] : n \in 0..MaxWords}

TextOf(words, pad, layout) ==
    layout.lead \o Join(words \o [i \in 1..pad |-> Filler], layout.sep) \o layout.trail

Texts == {TextOf(w, k, l) : w \in WordLists, k \in 0..MaxPad, l \in Layouts}

\* strings, missing values, a non-string scalar, and lists of one element or
\* more (what an empty list does depends on the numpy version, see TruthValue)
ClassifierInputs ==
    {StrVal(t) : t \in Texts} \cup {NaNVal, NoneVal, IntVal}
        \cup {ListVal(n) : n \in 1..MaxListLen}

\* the thresholds tried: the defaults and the permissive extremes
ParamChoices ==
    { [min_words |-> w, alpha_num |-> r[1], alpha_den |-> DefaultMinAlphaDen,
       min_length |-> r[2]] :
         w \in {0, DefaultMinWords},
         r \in {<<0, 0>>, <<DefaultMinAlphaNum, DefaultMinLength>>} }

\* the call has not ended yet
Pending == [exc |-> <<"pending">>, ret |-> FALSE, line |-> 0, english_word_count |-> -1]

\* text_columns=None, and an explicit list of column names
NoColumns == [given |-> FALSE, names |-> <<>>]

Columns(names) == [given |-> TRUE, names |-> names]

\* no output file yet, and an output file holding the given english_text rows
NotWritten == [written |-> FALSE, english_text |-> <<>>]

Written(texts) == [written |-> TRUE, english_text |-> texts]

\* nothing returned, and the returned table
NoTable == [table |-> FALSE, english_text |-> <<>>]

Table(texts) == [table |-> TRUE, english_text |-> texts]

InitClassifier ==
    /\ cin \in ClassifierInputs
    /\ cparams \in ParamChoices
    /\ cout = Pending
    /\ pc = "idle"
    /\ file = <<>>
    /\ caller_columns = NoColumns
    /\ text_columns = NoColumns
    /\ visited = <<>>
    /\ attempts = <<>>
    /\ df = <<>>
    /\ total_rows = 0
    /\ row_idx = 0
    /\ all_texts = <<>>
    /\ result_df = <<>>
    /\ output_file = NotWritten
    /\ returned = NoTable
    /\ error = NoError

\* one call is_quality_english(cin, **cparams)
Classify ==
    /\ cout = Pending
    /\ \E emptyRaises \in BOOLEAN :
          cout' = is_quality_english(cin, cparams, emptyRaises)
    /\ UNCHANGED <<cin, cparams>>
    /\ UNCHANGED extractVars

NextClassifier == Classify

SpecClassifier == InitClassifier /\ [][NextClassifier]_vars

----------------------------------------------------------------------------
(* extract_quality_english_text: the inputs tried *)

\* most rows the input file holds
MaxRows == 2

\* df.columns
SourceColumns == <<"a", "b">>

TextA == <<"c","a","l","l"," ","t","h","e"," ","b","a","n","k"," ","n","o","w"," ","p","l","e","a","s","e">>

TextB == <<"s","e","n","d"," ","y","o","u","r"," ","c","o","d","e"," ","t","o"," ","m","e"," ","n","o","w">>

TextLong == <<"p","l","e","a","s","e"," ","c","a","l","l"," ","y","o","u","r"," ","b","a","n","k"," ","f","o","r"," ","t","h","e"," ","m","o","n","e","y">>

TextNoKeyword == <<"z","z","z","z","z","z","z","z","z"," ","z","z","z","z","z","z","z","z","z"," ","z","z","z","z","z","z","z","z","z"," ","z","z","z","z","z","z","z","z","z">>

\* what a cell holds: two passing texts of equal length, a longer passing
\* text, a still longer text without keywords, or a missing value
CellValues ==
    {StrVal(TextA), StrVal(TextB), StrVal(TextLong), StrVal(TextNoKeyword), NaNVal}

Rows == [Range(SourceColumns) -> CellValues]

Files == UNION {[1..n -> Rows] : n \in 0..MaxRows}

\* the text_columns arguments tried: None, no column, present columns in
\* another order than the source's, and a list naming a missing column
ColumnChoices ==
    {NoColumns, Columns(<<>>), Columns(<<"b">>), Columns(<<"b", "a">>),
     Columns(<<"a", "c">>)}

----------------------------------------------------------------------------
(* extract_quality_english_text *)

\* the literal sentinels of line 94
Sentinels == {<<>>, <<"n","a","n">>, <<"N","o","n","e">>, <<"0">>, <<"N","a","N">>}

\* cell_text = str(row[col]) if not pd.isna(row[col]) else ""
CellText(v) == IF PdIsNa(v).value THEN <<>> ELSE v.chars

\* every text a cell can be coerced to
CellTexts == {CellText(v) : v \in CellValues}

\* is_quality_english(cell_text) with the default thresholds, per cell text
QualityOfCellText ==
    [t \in CellTexts |-> is_quality_english(StrVal(t), DefaultParams, FALSE).ret]

ColumnsToScanIfAny(columns, df_columns) ==
    IF ~columns.given
       \/ ~(\E i \in 1..Len(columns.names) : columns.names[i] \in Range(df_columns))
    THEN Columns(df_columns)
    ELSE columns

\* if text_columns is None or not all(col in df.columns for col in text_columns):
\*     text_columns = df.columns
ColumnsToScan(columns, df_columns) ==
    IF ~columns.given
       \/ ~(\A i \in 1..Len(columns.names) : columns.names[i] \in Range(df_columns))
    THEN Columns(df_columns)
    ELSE columns

\* the inner loop of lines 90-99: the passing cell texts of a row, in the
\* order of the scanned columns
RECURSIVE RowTexts(_, _)
RowTexts(row, columns) ==
    IF columns = <<>> THEN <<>>
    ELSE LET cell_text == CellText(row[Head(columns)])
             rest      == RowTexts(row, Tail(columns))
         IN  IF Strip(cell_text) \in Sentinels THEN rest
             ELSE IF QualityOfCellText[cell_text] THEN <<cell_text>> \o rest
             ELSE rest

\* insert x into a list sorted by decreasing length, behind the elements of
\* the same length (what a stable sort does with a later element)
RECURSIVE InsertByLen(_, _)
InsertByLen(sorted, x) ==
    IF sorted = <<>> THEN <<x>>
    ELSE IF Len(Head(sorted)) >= Len(x)
         THEN <<Head(sorted)>> \o InsertByLen(Tail(sorted), x)
         ELSE <<x>> \o sorted

\* sorted(texts, key=len, reverse=True): stable, longest first
RECURSIVE SortedByLenReverse(_)
SortedByLenReverse(texts) ==
    IF texts = <<>> THEN <<>>
    ELSE InsertByLen(SortedByLenReverse(SubSeq(texts, 1, Len(texts) - 1)),
                     texts[Len(texts)])

LongestTextLastOfTies(row_texts) ==
    LET sorted == SortedByLenReverse(row_texts)
        ties   == {i \in 1..Len(sorted) : Len(sorted[i]) = Len(sorted[1])}
    IN  sorted[CHOOSE i \in ties : \A j \in ties : i >= j]

\* longest_text = sorted(row_texts, key=len, reverse=True)[0]
LongestText(row_texts) == SortedByLenReverse(row_texts)[1]

DropDuplicatesNothing(texts) == texts

DropDuplicatesKeepNone(texts) ==
    SelectSeq(texts, LAMBDA x : Cardinality({i \in 1..Len(texts) : texts[i] = x}) = 1)

\* result_df.drop_duplicates(inplace=True): keep the first of every value
RECURSIVE DropDuplicates(_)
DropDuplicates(texts) ==
    IF texts = <<>> THEN <<>>
    ELSE LET before == DropDuplicates(SubSeq(texts, 1, Len(texts) - 1))
             x      == texts[Len(texts)]
         IN  IF x \in Range(before) THEN before ELSE Append(before, x)

InitExtract ==
    /\ pc = "read_csv_default"
    /\ file \in Files
    /\ caller_columns \in ColumnChoices
    /\ text_columns = caller_columns
    /\ visited = <<>>
    /\ attempts = <<>>
    /\ df = <<>>
    /\ total_rows = 0
    /\ row_idx = 0
    /\ all_texts = <<>>
    /\ result_df = <<>>
    /\ output_file = NotWritten
    /\ returned = NoTable
    /\ error = NoError
    /\ cin = NoneVal
    /\ cparams = DefaultParams
    /\ cout = Pending

\* a read_csv call succeeded: df is bound, lines 75-76 run
Loaded(strategy) ==
    /\ attempts' = Append(attempts, strategy)
    /\ df' = file
    /\ total_rows' = Len(file)
    /\ pc' = "select_columns"
    /\ UNCHANGED <<file, caller_columns, text_columns, visited, row_idx, all_texts,
                   result_df, output_file, returned, error>>
    /\ UNCHANGED classifierVars

\* a read_csv call raised inside a try whose handler goes on at `next`
Recovered(strategy, next) ==
    /\ attempts' = Append(attempts, strategy)
    /\ pc' = next
    /\ UNCHANGED <<file, caller_columns, text_columns, visited, df, total_rows,
                   row_idx, all_texts, result_df, output_file, returned, error>>
    /\ UNCHANGED classifierVars

\* a read_csv call raised with no handler left: the exception leaves the function
Propagated(strategy) ==
    /\ attempts' = Append(attempts, strategy)
    /\ pc' = "raised"
    /\ error' = <<"read_csv", strategy>>
    /\ UNCHANGED <<file, caller_columns, text_columns, visited, df, total_rows,
                   row_idx, all_texts, result_df, output_file, returned>>
    /\ UNCHANGED classifierVars

\* lines 62-67: df = pd.read_csv(input_file)
ReadCsvDefault ==
    /\ pc = "read_csv_default"
    /\ \/ Loaded("default")
       \/ Recovered("default", "read_csv_latin1")

ReadCsvLatin1Unguarded ==
    /\ pc = "read_csv_latin1"
    /\ \/ Loaded("latin1")
       \/ Propagated("latin1")

\* lines 68-71: df = pd.read_csv(input_file, encoding='latin1')
ReadCsvLatin1 ==
    /\ pc = "read_csv_latin1"
    /\ \/ Loaded("latin1")
       \/ Recovered("latin1", "read_csv_lenient")

\* lines 72-73: df = pd.read_csv(..., engine='python', on_bad_lines='skip')
ReadCsvLenient ==
    /\ pc = "read_csv_lenient"
    /\ \/ Loaded("lenient")
       \/ Propagated("lenient")

\* lines 78-84
SelectColumns ==
    /\ pc = "select_columns"
    /\ text_columns' = ColumnsToScan(text_columns, SourceColumns)
    /\ all_texts' = <<>>
    /\ pc' = "scan"
    /\ UNCHANGED <<file, caller_columns, visited, attempts, df, total_rows, row_idx,
                   result_df, output_file, returned, error>>
    /\ UNCHANGED classifierVars

\* lines 86-105: one iteration of the loop over df.iterrows()
ScanRow ==
    /\ pc = "scan"
    /\ row_idx < total_rows
    /\ LET row == df[row_idx + 1]
       IN  IF \E i \in 1..Len(text_columns.names) :
                    text_columns.names[i] \notin DOMAIN row
           THEN /\ pc' = "raised"
                /\ error' = <<"KeyError">>
                /\ UNCHANGED <<visited, row_idx, all_texts>>
           ELSE LET row_texts == RowTexts(row, text_columns.names)
                IN  /\ visited' = text_columns.names
                    /\ row_idx' = row_idx + 1
                    /\ all_texts' = IF row_texts # <<>>
                                    THEN Append(all_texts, LongestText(row_texts))
                                    ELSE all_texts
                    /\ UNCHANGED <<pc, error>>
    /\ UNCHANGED <<file, caller_columns, text_columns, attempts, df, total_rows,
                   result_df, output_file, returned>>
    /\ UNCHANGED classifierVars

\* lines 107-111: the loop is over; build result_df and drop duplicates
BuildResult ==
    /\ pc = "scan"
    /\ row_idx = total_rows
    /\ result_df' = DropDuplicates(all_texts)
    /\ pc' = "to_csv"
    /\ UNCHANGED <<file, caller_columns, text_columns, visited, attempts, df,
                   total_rows, row_idx, all_texts, output_file, returned, error>>
    /\ UNCHANGED classifierVars

\* line 114: result_df.to_csv(output_file, index=False)
ToCsv ==
    /\ pc = "to_csv"
    /\ output_file' = Written(result_df)
    /\ pc' = "report"
    /\ UNCHANGED <<file, caller_columns, text_columns, visited, attempts, df,
                   total_rows, row_idx, all_texts, result_df, returned, error>>
    /\ UNCHANGED classifierVars

ReportGuarded ==
    /\ pc = "report"
    /\ returned' = Table(result_df)
    /\ pc' = "returned"
    /\ UNCHANGED <<file, caller_columns, text_columns, visited, attempts, df,
                   total_rows, row_idx, all_texts, result_df, output_file, error>>
    /\ UNCHANGED classifierVars

\* lines 116-120: the summary divides len(result_df) by total_rows, then the
\* table is returned
Report ==
    /\ pc = "report"
    /\ IF total_rows = 0
       THEN /\ error' = <<"ZeroDivisionError">>
            /\ pc' = "raised"
            /\ UNCHANGED returned
       ELSE /\ returned' = Table(result_df)
            /\ pc' = "returned"
            /\ UNCHANGED error
    /\ UNCHANGED <<file, caller_columns, text_columns, visited, attempts, df,
                   total_rows, row_idx, all_texts, result_df, output_file>>
    /\ UNCHANGED classifierVars

Next ==
    \/ ReadCsvDefault
    \/ ReadCsvLatin1
    \/ ReadCsvLenient
    \/ SelectColumns
    \/ ScanRow
    \/ BuildResult
    \/ ToCsv
    \/ Report

Spec == InitExtract /\ [][Next]_vars

----------------------------------------------------------------------------
(* Properties of extract_quality_english_text, checked under Spec *)

\* read_csv succeeded and the function went on
TableLoaded ==
    /\ pc \notin {"idle", "read_csv_default", "read_csv_latin1", "read_csv_lenient"}
    /\ ~(pc = "raised" /\ Head(error) = "read_csv")

\* the scan is over and result_df holds the deduplicated output
ResultBuilt == TableLoaded /\ pc \in {"to_csv", "report", "returned", "raised"}

NoTwoEqual(texts) ==
    \A i, j \in 1..Len(texts) : i # j => texts[i] # texts[j]

\* C1: once the scan of a table is over, the output (result_df, the written
\* file and the returned table) holds at most as many records as rows were
\* loaded, and no two of its records are equal.
C1_OutputBoundedAndDistinct ==
    ResultBuilt =>
        \A out \in {result_df, output_file.english_text, returned.english_text} :
            Len(out) <= total_rows /\ NoTwoEqual(out)

\* two rows gave the same record and the returned table holds it once
C1_Witness ==
    /\ pc = "returned"
    /\ Len(all_texts) = 2
    /\ all_texts[1] = all_texts[2]
    /\ Len(returned.english_text) = 1
    /\ output_file.english_text = returned.english_text

\* the scanned columns of a row whose cell text passes the classifier
PassingColumns(row, columns) ==
    {j \in 1..Len(columns) : QualityOfCellText[CellText(row[columns[j]])]}

\* the record a row contributes: none when no scanned cell passes, else the
\* text of the passing cell that is longest, the earliest column among ties
RowRecord(row, columns) ==
    LET passing == PassingColumns(row, columns)
        TextAt(j) == CellText(row[columns[j]])
    IN  IF passing = {} THEN <<>>
        ELSE LET best == CHOOSE j \in passing : \A k \in passing :
                            \/ Len(TextAt(j)) > Len(TextAt(k))
                            \/ Len(TextAt(j)) = Len(TextAt(k)) /\ j <= k
             IN  <<TextAt(best)>>

RECURSIVE RecordsOf(_, _, _)
RecordsOf(rows, n, columns) ==
    IF n = 0 THEN <<>>
    ELSE RecordsOf(rows, n - 1, columns) \o RowRecord(rows[n], columns)

\* C2: every scanned row has appended exactly one record when at least one of
\* its scanned cells passes the classifier and nothing otherwise, and that
\* record is the longest passing cell text, the earliest scanned column
\* winning among texts of the same length.
C2_OneLongestRecordPerRow ==
    (TableLoaded /\ pc # "select_columns" /\ error # <<"KeyError">>) =>
        all_texts = RecordsOf(df, row_idx, text_columns.names)

\* a row with two passing texts of the same length, scanned b before a
C2_Witness ==
    /\ pc = "scan"
    /\ row_idx = 1
    /\ text_columns.names = <<"b", "a">>
    /\ df[1]["a"] = StrVal(TextA)
    /\ df[1]["b"] = StrVal(TextB)
    /\ all_texts = <<TextB>>

\* texts without every element that occurred earlier in it
FirstOccurrences(texts) ==
    LET first == SelectSeq([i \in 1..Len(texts) |-> i],
                           LAMBDA i : \A j \in 1..(i - 1) : texts[j] # texts[i])
    IN  [k \in 1..Len(first) |-> texts[first[k]]]

ClaimedColumns ==
    IF caller_columns.given
       /\ \A i \in 1..Len(caller_columns.names) :
             \E j \in 1..Len(SourceColumns) : SourceColumns[j] = caller_columns.names[i]
    THEN caller_columns.names
    ELSE SourceColumns

\* C4: the columns scanned are the caller's when text_columns is a list whose
\* every column exists in the source, and all columns of the source, in
\* source order, in every other case.
C4_ColumnsScanned ==
    (TableLoaded /\ pc # "select_columns") =>
        /\ text_columns.names = ClaimedColumns
        /\ row_idx > 0 => visited = ClaimedColumns

\* the caller named a missing column and a row was read at all source columns
C4_Witness ==
    /\ caller_columns = Columns(<<"a", "c">>)
    /\ row_idx > 0
    /\ visited = <<"a", "b">>

StrategyOrder == <<"default", "latin1", "lenient">>

\* what holds of the loading in every state: the order of the attempts, and
\* which exception can leave the function
ParseFallbackState ==
    /\ attempts = SubSeq(StrategyOrder, 1, Len(attempts))
    /\ pc = "read_csv_default" => attempts = <<>>
    /\ pc = "read_csv_latin1" => attempts = <<"default">>
    /\ pc = "read_csv_lenient" => attempts = <<"default", "latin1">>
    /\ TableLoaded => /\ Len(attempts) >= 1
                      /\ df = file
                      /\ error \in {NoError, <<"ZeroDivisionError">>}
    /\ (pc = "raised" /\ Head(error) = "read_csv") =>
            /\ attempts = StrategyOrder
            /\ error = <<"read_csv", "lenient">>
            /\ ~output_file.written
            /\ ~returned.table

\* C8: the strategies are tried in the order default, Latin-1, lenient; the
\* one that succeeds ends the loading (nothing is tried after it); a failure
\* of the first or second never leaves the function; only the failure of the
\* third does, after all three were tried.
C8_ParseFallbackChain ==
    /\ []ParseFallbackState
    /\ [][TableLoaded => (attempts' = attempts /\ df' = df)]_vars

\* the first two strategies failed, the third supplied the table
C8_Witness ==
    /\ pc = "returned"
    /\ attempts = StrategyOrder
    /\ error = NoError
    /\ returned.table

\* C10: a source that loads with zero rows is not guarded: nothing is
\* scanned, the empty output is written, then the report divides by zero;
\* the call ends in that error and returns no table.
C10_EmptySourceDividesByZero ==
    (TableLoaded /\ total_rows = 0) =>
        /\ all_texts = <<>>
        /\ pc \in {"report", "returned", "raised"} => output_file = Written(<<>>)
        /\ pc # "returned"
        /\ returned = NoTable
        /\ pc = "raised" => error = <<"ZeroDivisionError">>
        /\ error # NoError => pc = "raised" /\ output_file.written

C10_Witness ==
    /\ pc = "raised"
    /\ file = <<>>
    /\ error = <<"ZeroDivisionError">>
    /\ output_file = Written(<<>>)
    /\ returned = NoTable

----------------------------------------------------------------------------
(* Properties of is_quality_english, checked under SpecClassifier *)

CallEnded == cout # Pending

\* the text holds five consecutive "X"
ContainsFiveX(s) == Contains(s, <<"X", "X", "X", "X", "X">>)

\* the call got a non-blank string
NonBlankString == IsStr(cin) /\ Strip(cin.chars) # <<>>

NormalizedLength == Len(CleanedText(cin.chars))

\* the length, placeholder-run, word-count and alphabetic-ratio checks pass
PassedEarlierChecks ==
    LET cleaned == CleanedText(cin.chars)
    IN  /\ Len(cleaned) >= cparams.min_length
        /\ ~ContainsFiveX(cleaned)
        /\ Len(Split(cleaned)) >= cparams.min_words
        /\ AlphaChars(cleaned) * cparams.alpha_den >= cparams.alpha_num * Len(cleaned)

\* C5: for a text that passed the four earlier checks the result is true
\* exactly when the match count is at least 2 for a normalized length above
\* 50, and at least 1 for a normalized length of 50 or less.
C5_KeywordThreshold ==
    (CallEnded /\ NonBlankString /\ PassedEarlierChecks) =>
        /\ cout.exc = NoError
        /\ cout.ret = IF NormalizedLength > 50
                      THEN cout.english_word_count >= 2
                      ELSE cout.english_word_count >= 1

\* a text of normalized length exactly 50 with one match passes
C5_Witness ==
    /\ CallEnded
    /\ NonBlankString
    /\ NormalizedLength = 50
    /\ cout.english_word_count = 1
    /\ cout.ret = TRUE

\* the words of the normalized, lower-cased text
WordsOfText == Range(Split(Lower(CleanedText(cin.chars))))

\* C6: the match count is the number of distinct keywords that are, case
\* aside, a whole space-bounded word of the normalized text: a keyword next
\* to punctuation or inside a longer word does not count, a repeated keyword
\* counts once.
C6_MatchCountWholeWords ==
    (CallEnded /\ cout.english_word_count # -1) =>
        cout.english_word_count =
            Cardinality(Range(common_english_words) \cap WordsOfText)

\* "win," and "winner" beside one keyword proper: the count is 1
C6_Witness ==
    /\ CallEnded
    /\ <<"w","i","n",",">> \in WordsOfText
    /\ <<"w","i","n","n","e","r">> \in WordsOfText
    /\ <<"w","i","n">> \notin WordsOfText
    /\ cout.english_word_count = 1

\* C7: a string holding a run of five or more "X" is rejected whatever else
\* it holds and whatever the thresholds are.
C7_PlaceholderRunRejected ==
    (CallEnded /\ IsStr(cin) /\ ContainsFiveX(cin.chars)) =>
        cout.exc = NoError /\ cout.ret = FALSE

\* the most permissive thresholds, two keywords, and the run rejects the text
C7_Witness ==
    /\ CallEnded
    /\ IsStr(cin)
    /\ cparams.min_words = 0
    /\ cparams.min_length = 0
    /\ cparams.alpha_num = 0
    /\ cout.line = 27
    /\ cout.ret = FALSE
    /\ Cardinality(Range(common_english_words) \cap WordsOfText) >= 2

\* C9: is_quality_english never raises, and returns false for a missing
\* value, a value that is no string, and a blank string.
C9_NeverRaises ==
    CallEnded =>
        /\ cout.exc = NoError
        /\ (~IsStr(cin) \/ Strip(cin.chars) = <<>>) => cout.ret = FALSE

====
